---- MODULE Spec2Model ----
(***************************************************************************)
(* ReactionManager (src/src/Features/ReactionManager.js): the in-memory    *)
(* rule map, its administrative handlers, the message filter and the       *)
(* reaction dispatcher, together with the persistent store they talk to.   *)
(*                                                                         *)
(* Representation of JavaScript values:                                    *)
(*   - a value that reaches parseInt is a record [t, v] (Num, Undefined,   *)
(*     JsTrue, JsFalse); parseInt of a non-number is NaN;                  *)
(*   - the numbers that occur are naturals, NaN is the integer -1;         *)
(*   - a string is a sequence of one-character strings; `x || null` maps   *)
(*     the empty string to null, so a null string field is <<>>;           *)
(*   - `parseInt(x) || null` maps NaN and 0 to null, so a null id is 0;    *)
(*   - the keys of this._data are numbers, the key "NaN" is NaN.           *)
(***************************************************************************)
EXTENDS Integers, Sequences, FiniteSets, TLC

VARIABLES
    table,      \* persistent store: the rows of the reactions table, by primary key
    _data,      \* this._data: key -> rule record (meaningful while released = FALSE)
    released,   \* this._data === null
    dbc,        \* this.dbc holds the database connection
    routes,     \* administrative operations registered with Timbot.api
    filter,     \* _handleDiscordMessage is registered with Timbot.messenger
    lifecycle,  \* what the host has called so far: "constructed", "enabled", "disabled"
    lastOp,     \* the operation that produced this state, its argument and its outcome
    synced,     \* a load, a write or a delete has succeeded at the store
    wsOut,      \* the payloads the last operation sent to the requester (ws.send)
    msg,        \* the message of the latest invocation of the filter
    matching,   \* matchingReactions of that invocation (keys of _data)
    issued,     \* the side effects that invocation issued, in order
    pending,    \* indices of issued effects whose promise has not settled
    warned,     \* indices of issued effects whose failure was logged as a warning
    unhandled   \* indices of issued effects whose rejection no handler caught

vars == <<table, _data, released, dbc, routes, filter, lifecycle, lastOp, synced,
          wsOut, msg, matching, issued, pending, warned, unhandled>>

msgVars == <<msg, matching, issued, pending, warned, unhandled>>

-----------------------------------------------------------------------------
(* Bounds *)

MaxId == 2          \* largest primary key the store hands out or a request names
MaxLen == 2         \* longest trigger / message text of the matcher's input space

-----------------------------------------------------------------------------
(* JavaScript values *)

NaN == 0 - 1
Null == 0
NullStr == <<>>

Num(n) == [t |-> "number", v |-> n]
Undefined == [t |-> "undefined", v |-> 0]
JsFalse == [t |-> "boolean", v |-> 0]
JsTrue == [t |-> "boolean", v |-> 1]

parseInt(x) == IF x.t = "number" THEN x.v ELSE NaN

\* truthiness of a number: NaN and 0 are falsy
Truthy(n) == n # NaN /\ n # 0

\* parseInt(x) || null
IntOrNull(x) == IF Truthy(parseInt(x)) THEN parseInt(x) ELSE Null

\* parseInt(x) === 1 ? 1 : 0
Flag(x) == IF parseInt(x) = 1 THEN 1 ELSE 0

RECURSIVE TrimStart(_)
TrimStart(s) == IF s # <<>> /\ Head(s) = " " THEN TrimStart(Tail(s)) ELSE s

RECURSIVE TrimEnd(_)
TrimEnd(s) ==
    IF s # <<>> /\ s[Len(s)] = " " THEN TrimEnd(SubSeq(s, 1, Len(s) - 1)) ELSE s

\* String.prototype.trim
trim(s) == TrimEnd(TrimStart(s))

EmptyMap == [k \in {} |-> 0]

\* obj[k] = v
Put(m, k, v) == [j \in (DOMAIN m) \cup {k} |-> IF j = k THEN v ELSE m[j]]

\* delete obj[k]
Remove(m, k) == [j \in (DOMAIN m) \ {k} |-> m[j]]

RECURSIVE Ascending(_)
Ascending(S) ==
    IF S = {} THEN <<>>
    ELSE LET lo == CHOOSE a \in S : \A b \in S : a <= b
         IN  <<lo>> \o Ascending(S \ {lo})

\* Object.values: integer keys in ascending order, then the string key "NaN"
ObjectValues(m) ==
    LET ints == Ascending((DOMAIN m) \ {NaN})
    IN  [i \in 1..Len(ints) |-> m[ints[i]]]
        \o (IF NaN \in DOMAIN m THEN <<m[NaN]>> ELSE <<>>)

-----------------------------------------------------------------------------
(* Program constants *)

API_OP_REACTION_WRITE == "reaction_write"
API_OP_REACTION_DELETE == "reaction_delete"
API_OP_REACTIONS_FETCH == "reactions_fetch"

TYPE_KEYWORD == "keyword"
TYPE_TEXT == "text"
TYPE_MESSAGE == "message"

AllRoutes == {API_OP_REACTION_WRITE, API_OP_REACTION_DELETE, API_OP_REACTIONS_FETCH}

-----------------------------------------------------------------------------
(* Administrative requests *)

\* bodies of reaction_write requests, as they arrive (before normalisation)
Bodies == {
    [type |-> TYPE_KEYWORD, trigger |-> <<"a">>, must_mention |-> Num(1),
     insensitive |-> Num(1), response |-> <<"o", "k">>,
     emote |-> <<":", "x", ":">>, do_mention |-> Num(1)],
    [type |-> "", trigger |-> <<>>, must_mention |-> Undefined,
     insensitive |-> Num(2), response |-> <<"o", "k">>,
     emote |-> <<" ">>, do_mention |-> JsTrue],
    [type |-> TYPE_TEXT, trigger |-> <<"A", "!">>, must_mention |-> Num(0),
     insensitive |-> Num(0), response |-> <<>>,
     emote |-> <<" ", "y", " ", " ", ":", "z", ":">>, do_mention |-> Num(0)] }

\* the id field of a request: missing, zero, or a number up to MaxId
RawIds == {Undefined} \cup {Num(n) : n \in 0..MaxId}

\* lines 66-79 of _handleApiWriteReaction: the record handed to the store
upsertData(id, body) ==
    [id |-> IntOrNull(id),
     type |-> body.type,
     trigger |-> body.trigger,
     must_mention |-> Flag(body.must_mention),
     insensitive |-> Flag(body.insensitive),
     response |-> body.response,
     emote |-> trim(body.emote),
     do_mention |-> Flag(body.do_mention)]

-----------------------------------------------------------------------------
(* Persistent store (Timbot.db): insert-or-update by primary key returning  *)
(* the key, delete by primary key returning whether a row was removed,      *)
(* select of all rows.                                                      *)

\* the primary key an insert without id is given
NewId(t) ==
    IF DOMAIN t = {} THEN 1
    ELSE (CHOOSE a \in DOMAIN t : \A b \in DOMAIN t : b <= a) + 1

\* the key under which insertOrUpdate stores the row
RowKey(t, row) == IF row.id = Null THEN NewId(t) ELSE row.id

\* the table after a successful insertOrUpdate
insertOrUpdate(t, row) ==
    Put(t, RowKey(t, row), [row EXCEPT !.id = RowKey(t, row)])

\* the table after a successful deleteIfExists
deleteIfExists(t, id) == Remove(t, id)

\* SELECT * FROM reactions
SelectAll(t) == ObjectValues(t)

-----------------------------------------------------------------------------
(* Rule store *)

\* lines 83-93 of _handleApiWriteReaction: this._data after the store answered
\* `result` (the handler returns early on false)
WriteDataIgnoringFailure(d, row, result) ==
    LET recordId == parseInt(result)
        stored == IF row.id = Null /\ Truthy(recordId)
                  THEN [row EXCEPT !.id = recordId] ELSE row
    IN  Put(d, recordId, stored)

WriteDataWithoutId(d, row, result) ==
    IF result = JsFalse THEN d ELSE Put(d, parseInt(result), row)

WriteData(d, row, result) ==
    IF result = JsFalse THEN d
    ELSE LET recordId == parseInt(result)
             stored == IF row.id = Null /\ Truthy(recordId)
                       THEN [row EXCEPT !.id = recordId] ELSE row
         IN  Put(d, recordId, stored)

\* lines 100-102 of _handleApiReactionDelete: this._data after deleteIfExists
\* answered `confirmed`
DeleteDataKept(d, id, confirmed) == d

DeleteDataUnconfirmed(d, id, confirmed) == Remove(d, id)

DeleteData(d, id, confirmed) == IF confirmed THEN Remove(d, id) ELSE d

\* lines 110-117 of _handleApiReactionsFetch: the payload given to ws.send
FetchPayload(d) == [op |-> API_OP_REACTIONS_FETCH, reactions |-> ObjectValues(d)]

RECURSIVE LoadRows(_, _)
\* lines 250-252 of reloadAll: allRows.forEach(row => this._data[row.id] = row)
LoadRows(d, rows) ==
    IF rows = <<>> THEN d
    ELSE LoadRows(Put(d, Head(rows).id, Head(rows)), Tail(rows))

\* what `this.dbc.prepare('SELECT * FROM reactions;').all()` gives reloadAll:
\* it throws, or it returns rows; `bad` is the position of a row that is not an
\* object (0 when every row is well formed)
GoodRead(t) == [thrown |-> FALSE, rows |-> SelectAll(t), bad |-> 0]
FailedRead(t) == [thrown |-> TRUE, rows |-> <<>>, bad |-> 0]
MalformedRead(t, k) == [thrown |-> FALSE, rows |-> SelectAll(t), bad |-> k]

\* lines 243-259 of reloadAll: this._data, whether it is null, and the value
\* returned. A missing connection or a throwing query leaves the catch block
\* before line 248; a row that is not an object throws at `row.id` (line 251),
\* after the map was reset and the rows before it were stored.
reloadAll(d, rel, conn, read) ==
    IF ~conn \/ read.thrown
    THEN [data |-> d, released |-> rel, ok |-> FALSE]
    ELSE IF read.bad = 0
    THEN [data |-> LoadRows(EmptyMap, read.rows), released |-> FALSE, ok |-> TRUE]
    ELSE [data |-> LoadRows(EmptyMap, SubSeq(read.rows, 1, read.bad - 1)),
          released |-> FALSE, ok |-> FALSE]

-----------------------------------------------------------------------------
(* Rule matcher: lines 137-177 of _handleDiscordMessage *)

\* String.prototype.toLowerCase on the characters that occur
LowerChar(c) ==
    CASE c = "A" -> "a" [] c = "B" -> "b" [] c = "C" -> "c" [] c = "I" -> "i"
      [] OTHER -> c

toLowerCase(s) == [i \in 1..Len(s) |-> LowerChar(s[i])]

\* the characters lines 157-162 delete
Punctuation == {"!", "?", "'", "\"", ",", "."}

RECURSIVE replaceAll(_, _)
\* s.replaceAll(c, "") for every c of the set
replaceAll(s, chars) ==
    IF s = <<>> THEN <<>>
    ELSE IF Head(s) \in chars THEN replaceAll(Tail(s), chars)
    ELSE <<Head(s)>> \o replaceAll(Tail(s), chars)

\* lines 148-163: chatNormal
chatNormal(reaction, cleanText) ==
    IF reaction.insensitive # 0
    THEN replaceAll(toLowerCase(cleanText), Punctuation)
    ELSE cleanText

\* lines 149-154: triggerNormal
triggerNormal(reaction) ==
    IF reaction.insensitive # 0 THEN toLowerCase(reaction.trigger) ELSE reaction.trigger

\* \w of a regular expression
WordChars ==
    {"a", "b", "c", "e", "i", "k", "l", "o", "s", "t", "v", "x", "y", "z",
     "A", "B", "C", "I", "_"}

\* \b at the position before character i of s (1 .. Len(s)+1)
WordBoundary(s, i) ==
    LET before == i > 1 /\ s[i - 1] \in WordChars
        after == i <= Len(s) /\ s[i] \in WordChars
    IN  before # after

\* s.indexOf(t) >= 0
Includes(s, t) ==
    \E p \in 1..(Len(s) - Len(t) + 1) : SubSeq(s, p, p + Len(t) - 1) = t

\* s.match(new RegExp("\\b" + t + "\\b", "gm")) !== null, for a pattern t
\* that holds no regular-expression metacharacter
KeywordMatchOpenEnd(s, t) ==
    \E p \in 1..(Len(s) - Len(t) + 1) :
        /\ SubSeq(s, p, p + Len(t) - 1) = t
        /\ WordBoundary(s, p)

KeywordMatch(s, t) ==
    \E p \in 1..(Len(s) - Len(t) + 1) :
        /\ SubSeq(s, p, p + Len(t) - 1) = t
        /\ WordBoundary(s, p)
        /\ WordBoundary(s, p + Len(t))

\* the callback of the filter of line 137
MatchesUnmentioned(reaction, cleanText, didMentionUs) ==
    IF reaction.trigger = NullStr THEN FALSE
    ELSE LET c == chatNormal(reaction, cleanText)
             t == triggerNormal(reaction)
         IN  CASE reaction.type = TYPE_KEYWORD -> KeywordMatch(c, t)
               [] reaction.type = TYPE_MESSAGE -> c = t
               [] OTHER -> Includes(c, t)

MatchesTriggerless(reaction, cleanText, didMentionUs) ==
    IF reaction.must_mention # 0 /\ ~didMentionUs THEN FALSE
    ELSE LET c == chatNormal(reaction, cleanText)
             t == triggerNormal(reaction)
         IN  CASE reaction.type = TYPE_KEYWORD -> KeywordMatch(c, t)
               [] reaction.type = TYPE_MESSAGE -> c = t
               [] OTHER -> Includes(c, t)

Matches(reaction, cleanText, didMentionUs) ==
    IF reaction.trigger = NullStr THEN FALSE
    ELSE IF reaction.must_mention # 0 /\ ~didMentionUs THEN FALSE
    ELSE LET c == chatNormal(reaction, cleanText)
             t == triggerNormal(reaction)
         IN  CASE reaction.type = TYPE_KEYWORD -> KeywordMatch(c, t)
               [] reaction.type = TYPE_MESSAGE -> c = t
               [] OTHER -> Includes(c, t)

RECURSIVE SelectKeys(_, _)
\* Array.prototype.filter: the keys of the set `ok`, in the order of `keys`
SelectKeys(keys, ok) ==
    IF keys = <<>> THEN <<>>
    ELSE (IF Head(keys) \in ok THEN <<Head(keys)>> ELSE <<>>) \o SelectKeys(Tail(keys), ok)

\* the keys of this._data in the order of Object.values
KeyOrder(d) ==
    Ascending((DOMAIN d) \ {NaN}) \o (IF NaN \in DOMAIN d THEN <<NaN>> ELSE <<>>)

matchingReactionsUngated(d, m) ==
    IF trim(m.cleanContent) = <<>> THEN <<>>
    ELSE SelectKeys(KeyOrder(d),
            {k \in DOMAIN d : Matches(d[k], trim(m.cleanContent), m.dm \/ m.mentioned)})

\* lines 120-177: matchingReactions, as the keys of the selected entries
matchingReactions(d, m) ==
    IF m.bot \/ m.system THEN <<>>
    ELSE IF trim(m.cleanContent) = <<>> THEN <<>>
    ELSE SelectKeys(KeyOrder(d),
            {k \in DOMAIN d : Matches(d[k], trim(m.cleanContent), m.dm \/ m.mentioned)})

-----------------------------------------------------------------------------
(* Reaction dispatcher: lines 186-236 of _deliverReaction.                  *)
(* A step of the dispatcher yields the effects it issued and whether an     *)
(* exception left it (which ends the forEach loops around it).              *)

RECURSIVE split(_)
\* s.split(' ')
split(s) ==
    IF \A i \in 1..Len(s) : s[i] # " " THEN <<s>>
    ELSE LET p == CHOOSE i \in 1..Len(s) :
                    s[i] = " " /\ \A j \in 1..(i - 1) : s[j] # " "
         IN  <<SubSeq(s, 1, p - 1)>> \o split(SubSeq(s, p + 1, Len(s)))

\* two steps in sequence
AndThen(a, b) ==
    IF a.aborted THEN a
    ELSE [effects |-> a.effects \o b.effects, aborted |-> b.aborted]

NoStep == [effects |-> <<>>, aborted |-> FALSE]

Effect(key, kind, arg, handler, threw) ==
    [rule |-> key, kind |-> kind, arg |-> arg, handler |-> handler, threw |-> threw]

\* lines 193-214: one emote token
EmoteStep(m, key, emote) ==
    IF emote # <<>> /\ Head(emote) = ":" /\ emote[Len(emote)] = ":"
    THEN LET emoteVal == SubSeq(emote, 2, Len(emote) - 1)
         IN  IF emoteVal \in m.emojis
             THEN [effects |-> <<Effect(key, "react", emoteVal, TRUE, FALSE)>>,
                   aborted |-> FALSE]
             ELSE [effects |-> <<Effect(key, "unresolved", emote, FALSE, FALSE)>>,
                   aborted |-> FALSE]
    ELSE [effects |-> <<Effect(key, "react", emote, TRUE, FALSE)>>, aborted |-> FALSE]

RECURSIVE EmoteSteps(_, _, _)
\* lines 192-215: emotes.forEach
EmoteSteps(m, key, emotes) ==
    IF emotes = <<>> THEN NoStep
    ELSE AndThen(EmoteStep(m, key, Head(emotes)), EmoteSteps(m, key, Tail(emotes)))

\* lines 219-226: msgContent; "@" stands for the mention `<@id> ` of the author
msgContent(m, reaction) ==
    IF ~m.dm /\ reaction.do_mention # 0
    THEN <<"@">> \o reaction.response ELSE reaction.response

\* lines 230-234: channel.send inside try/catch. A synchronous throw is caught
\* and logged; the promise send returns has no rejection handler.
SendStepUncaught(m, key, reaction) ==
    [effects |-> <<Effect(key, "send", msgContent(m, reaction), FALSE, m.sendThrows)>>,
     aborted |-> m.sendThrows]

SendStep(m, key, reaction) ==
    [effects |-> <<Effect(key, "send", msgContent(m, reaction), FALSE, m.sendThrows)>>,
     aborted |-> FALSE]

\* lines 186-236: _deliverReaction(client, message, reaction)
deliverReaction(m, key, reaction) ==
    AndThen(IF reaction.emote # NullStr
            THEN EmoteSteps(m, key, split(reaction.emote)) ELSE NoStep,
            IF reaction.response # NullStr
            THEN SendStep(m, key, reaction) ELSE NoStep)

DeliverAllAwaiting(d, m, keys) ==
    IF keys = <<>> THEN NoStep
    ELSE deliverReaction(m, Head(keys), d[Head(keys)])

RECURSIVE DeliverAll(_, _, _)
\* lines 179-181: matchingReactions.forEach
DeliverAll(d, m, keys) ==
    IF keys = <<>> THEN NoStep
    ELSE AndThen(deliverReaction(m, Head(keys), d[Head(keys)]),
                 DeliverAll(d, m, Tail(keys)))

-----------------------------------------------------------------------------
(* Initial state: a constructed feature (lines 8-17) next to a store that   *)
(* may already hold rows written by an earlier run.                         *)

\* the tables of at most MaxId rows that requests can have written
InitTables ==
    UNION {{[k \in S |-> [upsertData(Num(k), b[k]) EXCEPT !.id = k]] : b \in [S -> Bodies]}
           : S \in SUBSET (1..MaxId)}

NoMsg == [bot |-> FALSE, system |-> FALSE, cleanContent |-> <<>>, dm |-> FALSE,
          mentioned |-> FALSE, emojis |-> {}, sendThrows |-> FALSE]

Init ==
    /\ table \in InitTables
    /\ _data = EmptyMap
    /\ released = FALSE
    /\ dbc = FALSE
    /\ routes = {}
    /\ filter = FALSE
    /\ lifecycle = "constructed"
    /\ lastOp = [op |-> "constructor", ok |-> TRUE]
    /\ synced = FALSE
    /\ wsOut = <<>>
    /\ msg = NoMsg
    /\ matching = <<>>
    /\ issued = <<>>
    /\ pending = {}
    /\ warned = {}
    /\ unhandled = {}

-----------------------------------------------------------------------------
(* Lifecycle *)

\* lines 24-36: enable() with the outcome `read` of the query
EnableWith(read) ==
    LET r == reloadAll(_data, released, TRUE, read)
    IN  /\ dbc' = TRUE
        /\ _data' = r.data
        /\ released' = r.released
        /\ routes' = AllRoutes
        /\ filter' = TRUE
        /\ lifecycle' = "enabled"
        /\ lastOp' = [op |-> "enable", ok |-> r.ok]
        /\ synced' = (synced \/ r.ok)
        /\ wsOut' = <<>>
        /\ UNCHANGED <<table, msgVars>>

\* the host enables a constructed feature; the load succeeds or the store is
\* unreachable
Enable ==
    /\ lifecycle = "constructed"
    /\ \E read \in {GoodRead(table), FailedRead(table)} : EnableWith(read)

DisableKeepingFilter ==
    /\ lifecycle = "enabled"
    /\ routes' = {}
    /\ _data' = EmptyMap
    /\ released' = TRUE
    /\ dbc' = FALSE
    /\ lifecycle' = "disabled"
    /\ lastOp' = [op |-> "disable", ok |-> TRUE]
    /\ wsOut' = <<>>
    /\ UNCHANGED <<table, filter, synced, msgVars>>

\* lines 41-53: disable()
Disable ==
    /\ lifecycle = "enabled"
    /\ routes' = {}
    /\ filter' = FALSE
    /\ _data' = EmptyMap
    /\ released' = TRUE
    /\ dbc' = FALSE
    /\ lifecycle' = "disabled"
    /\ lastOp' = [op |-> "disable", ok |-> TRUE]
    /\ wsOut' = <<>>
    /\ UNCHANGED <<table, synced, msgVars>>

\* a call of reloadAll() with the outcome `read` of the query
ReloadAllWith(read) ==
    LET r == reloadAll(_data, released, dbc, read)
    IN  /\ _data' = r.data
        /\ released' = r.released
        /\ lastOp' = [op |-> "reloadAll", ok |-> r.ok]
        /\ synced' = (synced \/ r.ok)
        /\ wsOut' = <<>>
        /\ UNCHANGED <<table, dbc, routes, filter, lifecycle, msgVars>>

ReloadAll == \E read \in {GoodRead(table), FailedRead(table)} : ReloadAllWith(read)

-----------------------------------------------------------------------------
(* Administrative handlers *)

\* lines 64-94: _handleApiWriteReaction(ws, data) where the store performed
\* the write or not (`stored`) and answered `result`. With this._data null the
\* assignment of line 93 throws a TypeError after the store was written.
HandleApiWriteReaction(id, body, stored, result) ==
    LET row == upsertData(id, body)
        threw == released /\ result # JsFalse
    IN  /\ API_OP_REACTION_WRITE \in routes
        /\ RowKey(table, row) <= MaxId
        /\ table' = IF stored THEN insertOrUpdate(table, row) ELSE table
        /\ _data' = IF released THEN _data ELSE WriteData(_data, row, result)
        /\ lastOp' = [op |-> API_OP_REACTION_WRITE, ok |-> stored, row |-> row,
                      key |-> RowKey(table, row), result |-> result,
                      threw |-> threw]
        /\ synced' = (synced \/ stored)
        /\ wsOut' = <<>>
        /\ UNCHANGED <<released, dbc, routes, filter, lifecycle, msgVars>>

\* a write against a store that returns the key of the row, or false on failure
WriteReaction ==
    \E id \in RawIds, body \in Bodies, stored \in BOOLEAN :
        HandleApiWriteReaction(id, body, stored,
            IF stored THEN Num(RowKey(table, upsertData(id, body))) ELSE JsFalse)

\* lines 96-106: _handleApiReactionDelete(ws, data); `storeOk` is FALSE when
\* the store fails to delete. With this._data null either line 101 or the
\* Object.values of line 110 throws a TypeError.
HandleApiReactionDelete(id, storeOk) ==
    LET rid == IntOrNull(id)
        confirmed == storeOk /\ rid \in DOMAIN table
    IN  /\ API_OP_REACTION_DELETE \in routes
        /\ IF rid # Null /\ rid > 0
           THEN /\ table' = IF confirmed THEN deleteIfExists(table, rid) ELSE table
                /\ _data' = IF released THEN _data ELSE DeleteData(_data, rid, confirmed)
                /\ wsOut' = IF released THEN <<>> ELSE <<FetchPayload(_data')>>
                /\ lastOp' = [op |-> API_OP_REACTION_DELETE, ok |-> confirmed,
                              id |-> rid, threw |-> released]
           ELSE /\ UNCHANGED <<table, _data>>
                /\ wsOut' = <<>>
                /\ lastOp' = [op |-> API_OP_REACTION_DELETE, ok |-> FALSE,
                              id |-> rid, threw |-> FALSE]
        /\ synced' = (synced \/ (rid # Null /\ rid > 0 /\ confirmed))
        /\ UNCHANGED <<released, dbc, routes, filter, lifecycle, msgVars>>

ReactionDelete == \E id \in RawIds, storeOk \in BOOLEAN : HandleApiReactionDelete(id, storeOk)

\* lines 108-118: _handleApiReactionsFetch(ws, data)
ReactionsFetch ==
    /\ API_OP_REACTIONS_FETCH \in routes
    /\ wsOut' = IF released THEN <<>> ELSE <<FetchPayload(_data)>>
    /\ lastOp' = [op |-> API_OP_REACTIONS_FETCH, ok |-> ~released, threw |-> released,
                  after |-> [op |-> lastOp.op, ok |-> lastOp.ok]]
    /\ UNCHANGED <<table, _data, released, dbc, routes, filter, lifecycle, synced,
                   msgVars>>

-----------------------------------------------------------------------------
(* Message filter *)

Message(text, dm, mentioned, emojis, sendThrows) ==
    [bot |-> FALSE, system |-> FALSE, cleanContent |-> text, dm |-> dm,
     mentioned |-> mentioned, emojis |-> emojis, sendThrows |-> sendThrows]

\* the messages the messenger hands to the filter
Messages == {
    Message(<<"a">>, FALSE, FALSE, {}, FALSE),
    Message(<<"a">>, TRUE, FALSE, {<<"x">>}, FALSE),
    Message(<<" ", "a">>, FALSE, TRUE, {<<"x">>}, TRUE),
    Message(<<"A", "!">>, FALSE, FALSE, {<<"z">>}, FALSE),
    Message(<<"A", "!">>, FALSE, FALSE, {}, FALSE),
    [Message(<<"a">>, TRUE, FALSE, {<<"x">>}, FALSE) EXCEPT !.bot = TRUE],
    [Message(<<"a">>, TRUE, FALSE, {<<"x">>}, FALSE) EXCEPT !.system = TRUE],
    Message(<<" ">>, TRUE, FALSE, {<<"x">>}, FALSE) }

\* the effects of a sequence that are promises in flight
InFlight(effects) ==
    {i \in 1..Len(effects) : effects[i].kind \in {"react", "send"} /\ ~effects[i].threw}

\* the effects of a sequence whose failure was logged while dispatching
\* (lines 206 and 233)
LoggedAtDispatch(effects) ==
    {i \in 1..Len(effects) : effects[i].kind = "unresolved" \/ effects[i].threw}

\* lines 120-182: _handleDiscordMessage(client, message). With this._data null
\* the Object.values of line 137 throws a TypeError for a message that passed
\* the gates of lines 121-132.
HandleDiscordMessage(m) ==
    LET gated == m.bot \/ m.system \/ trim(m.cleanContent) = <<>>
        threw == released /\ ~gated
        keys == IF threw THEN <<>> ELSE matchingReactions(_data, m)
        run == DeliverAll(_data, m, keys)
    IN  /\ filter
        /\ msg' = m
        /\ matching' = keys
        /\ issued' = run.effects
        /\ pending' = InFlight(run.effects)
        /\ warned' = LoggedAtDispatch(run.effects)
        /\ unhandled' = {}
        /\ lastOp' = [op |-> "message", ok |-> ~run.aborted, threw |-> threw]
        /\ wsOut' = <<>>
        /\ UNCHANGED <<table, _data, released, dbc, routes, filter, lifecycle, synced>>

DiscordMessage == \E m \in Messages : HandleDiscordMessage(m)

\* the promise of an issued effect is fulfilled
Fulfil ==
    \E i \in pending :
        /\ pending' = pending \ {i}
        /\ UNCHANGED <<table, _data, released, dbc, routes, filter, lifecycle,
                       lastOp, synced, wsOut, msg, matching, issued, warned, unhandled>>

\* the promise of an issued effect is rejected: the .catch of lines 202 and
\* 211 logs a warning; a promise without handler is an unhandled rejection
Reject ==
    \E i \in pending :
        /\ pending' = pending \ {i}
        /\ warned' = IF issued[i].handler THEN warned \cup {i} ELSE warned
        /\ unhandled' = IF issued[i].handler THEN unhandled ELSE unhandled \cup {i}
        /\ UNCHANGED <<table, _data, released, dbc, routes, filter, lifecycle,
                       lastOp, synced, wsOut, msg, matching, issued>>

-----------------------------------------------------------------------------

-----------------------------------------------------------------------------
(* Other behaviours of the persistent store *)

\* enable() when the query returns a row that is not an object
EnableMalformed ==
    /\ lifecycle = "constructed"
    /\ \E k \in 1..Cardinality(DOMAIN table) : EnableWith(MalformedRead(table, k))

\* reloadAll() when the query returns a row that is not an object
ReloadAllMalformed ==
    \E k \in 1..Cardinality(DOMAIN table) : ReloadAllWith(MalformedRead(table, k))

\* what insertOrUpdate may answer on success when it does not answer the key
OtherResults == {JsTrue} \cup {Num(n) : n \in 1..MaxId}

\* a write the store performs and answers with some other value
WriteReactionAnyResult ==
    \E id \in RawIds, body \in Bodies, result \in OtherResults :
        HandleApiWriteReaction(id, body, TRUE, result)

-----------------------------------------------------------------------------
(* Specifications *)

\* the feature in service: lifecycle calls, administrative requests, messages
Next ==
    \/ Enable
    \/ Disable
    \/ ReloadAll
    \/ WriteReaction
    \/ ReactionDelete
    \/ ReactionsFetch
    \/ DiscordMessage

Spec == Init /\ [][Next]_vars

\* the dispatcher and the promises of its side effects
NextDispatch ==
    \/ Enable
    \/ DiscordMessage
    \/ Fulfil
    \/ Reject

SpecDispatch == Init /\ [][NextDispatch]_vars

\* the rule store next to a store whose query may return malformed rows
NextMalformed ==
    \/ Enable
    \/ EnableMalformed
    \/ ReloadAll
    \/ ReloadAllMalformed
    \/ WriteReaction
    \/ ReactionDelete
    \/ ReactionsFetch

SpecMalformed == Init /\ [][NextMalformed]_vars

\* the rule store next to a store whose insertOrUpdate may answer any value
NextAnyResult ==
    \/ Enable
    \/ ReloadAll
    \/ WriteReaction
    \/ WriteReactionAnyResult
    \/ ReactionDelete
    \/ ReactionsFetch

SpecAnyResult == Init /\ [][NextAnyResult]_vars

-----------------------------------------------------------------------------
(* The matcher over its input space: one stored rule, every trigger and     *)
(* every message text of at most MaxLen characters.                         *)

\* characters of triggers and texts: a letter in both cases, a punctuation
\* character of lines 157-162, a blank (none is a regular-expression
\* metacharacter)
Chars == {"a", "A", "!", " "}

Texts == UNION {[1..n -> Chars] : n \in 0..MaxLen}

MatchRule(type, trigger, insensitive) ==
    [id |-> 1, type |-> type, trigger |-> trigger, must_mention |-> 0,
     insensitive |-> insensitive, response |-> <<"o", "k">>, emote |-> <<>>,
     do_mention |-> 0]

MatchTables ==
    UNION {{Put(EmptyMap, 1, [MatchRule(type, trigger, insensitive)
                                EXCEPT !.must_mention = must_mention]) :
                type \in {TYPE_KEYWORD, TYPE_TEXT, TYPE_MESSAGE},
                trigger \in Texts \ {<<>>},
                insensitive \in {0, 1}}
           : must_mention \in {0, 1}}

InitMatch ==
    /\ table \in MatchTables
    /\ _data = EmptyMap
    /\ released = FALSE
    /\ dbc = FALSE
    /\ routes = {}
    /\ filter = FALSE
    /\ lifecycle = "constructed"
    /\ lastOp = [op |-> "constructor", ok |-> TRUE]
    /\ synced = FALSE
    /\ wsOut = <<>>
    /\ msg = NoMsg
    /\ matching = <<>>
    /\ issued = <<>>
    /\ pending = {}
    /\ warned = {}
    /\ unhandled = {}

\* the first message after enable(), drawn from the input space: in a guild
\* channel without mention, in a guild channel with a mention of the bot, or
\* direct
TextMessage ==
    \E text \in Texts, dm \in BOOLEAN, mentioned \in BOOLEAN :
        /\ lastOp.op = "enable"
        /\ ~(dm /\ mentioned)
        /\ HandleDiscordMessage(Message(text, dm, mentioned, {}, FALSE))

NextMatch == Enable \/ TextMessage

SpecMatch == InitMatch /\ [][NextMatch]_vars

-----------------------------------------------------------------------------
(* The matcher on the scenario of the word "cat": one stored rule, messages  *)
(* that hold the word alone, capitalised, in the plural and inside a word.   *)

ILoveCats == <<"I", " ", "l", "o", "v", "e", " ", "C", "a", "t", "s", "!">>
ILoveCat == <<"I", " ", "l", "o", "v", "e", " ", "C", "a", "t", "!">>

ScenarioTexts ==
    {ILoveCats, ILoveCat, <<"c", "a", "t">>, <<"C", "a", "t", "s">>,
     <<"l", "o", "c", "a", "t", "e">>}

ScenarioTriggers ==
    {<<"c", "a", "t">>, <<"C", "a", "t">>, <<"c", "a", "t", "s">>,
     <<"l", "o", "v", "e">>}

ScenarioTables ==
    {Put(EmptyMap, 1, MatchRule(type, trigger, insensitive)) :
        type \in {TYPE_KEYWORD, TYPE_TEXT, TYPE_MESSAGE},
        trigger \in ScenarioTriggers,
        insensitive \in {0, 1}}

InitScenario ==
    /\ table \in ScenarioTables
    /\ _data = EmptyMap
    /\ released = FALSE
    /\ dbc = FALSE
    /\ routes = {}
    /\ filter = FALSE
    /\ lifecycle = "constructed"
    /\ lastOp = [op |-> "constructor", ok |-> TRUE]
    /\ synced = FALSE
    /\ wsOut = <<>>
    /\ msg = NoMsg
    /\ matching = <<>>
    /\ issued = <<>>
    /\ pending = {}
    /\ warned = {}
    /\ unhandled = {}

\* a message of the scenario, in a guild channel, without mention
ScenarioMessage ==
    \E text \in ScenarioTexts : HandleDiscordMessage(Message(text, FALSE, FALSE, {}, FALSE))

NextScenario == Enable \/ ScenarioMessage

SpecScenario == InitScenario /\ [][NextScenario]_vars

-----------------------------------------------------------------------------
(* The life cycle when the host enables a feature again after disable().    *)

\* enable() on a disabled feature; the load succeeds or the store is
\* unreachable
ReEnable ==
    /\ lifecycle = "disabled"
    /\ \E read \in {GoodRead(table), FailedRead(table)} : EnableWith(read)

NextLifecycle ==
    \/ Enable
    \/ Disable
    \/ ReEnable
    \/ ReloadAll
    \/ ReactionsFetch
    \/ DiscordMessage

SpecLifecycle == Init /\ [][NextLifecycle]_vars

-----------------------------------------------------------------------------
(* Rule store and administrative handlers: properties *)

\* C1: once a load, a write or a delete has succeeded, the in-memory rule map
\* equals the reactions table of the persistent store (same ids, same field
\* values), after every enable, reloadAll, reaction_write and reaction_delete.
C1_MapMirrorsStore ==
    (synced /\ lifecycle # "disabled") => (~released /\ _data = table)

\* C2: a reaction_write whose insert-or-update fails at the store leaves the
\* in-memory rule map as it was and sends nothing to the requester.
C2_FailedWriteChangesNothing ==
    [][(lastOp'.op = API_OP_REACTION_WRITE /\ lastOp'.result = JsFalse)
        => (_data' = _data /\ released' = released /\ wsOut' = <<>>)]_vars

\* a write has failed at the store while the map held a rule
C2_Witness ==
    /\ lastOp.op = API_OP_REACTION_WRITE
    /\ lastOp.result = JsFalse
    /\ ~released
    /\ DOMAIN _data # {}

\* C3: a reaction_delete removes the in-memory entry of its id exactly when
\* the store deleted the row of that id; when the store deleted nothing (no
\* such row, or the delete failed) the map is unchanged; no error is raised.
C3_DeleteOnlyWhenConfirmed ==
    [][lastOp'.op = API_OP_REACTION_DELETE
        => /\ ~lastOp'.threw
           /\ (table' # table
                 => /\ lastOp'.id \in DOMAIN table
                    /\ table' = Remove(table, lastOp'.id)
                    /\ _data' = Remove(_data, lastOp'.id))
           /\ (table' = table => _data' = _data)]_vars

\* the store failed to delete a row that exists, and the entry is still in
\* the map
C3_Witness ==
    /\ lastOp.op = API_OP_REACTION_DELETE
    /\ ~lastOp.ok
    /\ lastOp.id \in DOMAIN table
    /\ ~released
    /\ lastOp.id \in DOMAIN _data

\* the entry a successful write must leave in the list: the normalised input
\* under the key the store wrote
Written(op) == [op.row EXCEPT !.id = op.key]

\* a record is normalised: flags are 0 or 1, the emote has no blank end
Normalised(e) ==
    /\ {e.must_mention, e.insensitive, e.do_mention} \subseteq {0, 1}
    /\ e.emote = <<>> \/ (Head(e.emote) # " " /\ e.emote[Len(e.emote)] # " ")

\* C4: a reactions_fetch that follows a successful reaction_write lists an
\* entry equal to the normalised input; without id in the request the entry
\* carries the positive id the store assigned, with an id it is stored under
\* and carries that id.
C4_WriteThenFetch ==
    [][(lastOp.op = API_OP_REACTION_WRITE /\ lastOp.ok
        /\ lastOp'.op = API_OP_REACTIONS_FETCH)
        => /\ Len(wsOut') = 1
           /\ wsOut'[1].op = API_OP_REACTIONS_FETCH
           /\ \E i \in 1..Len(wsOut'[1].reactions) :
                LET e == wsOut'[1].reactions[i]
                IN  /\ e = Written(lastOp)
                    /\ Normalised(e)
                    /\ e.id > 0
                    /\ e.id \in DOMAIN table /\ table[e.id] = e
                    /\ e.id \in DOMAIN _data /\ _data[e.id] = e
                    /\ (lastOp.row.id # Null => e.id = lastOp.row.id)]_vars

\* a fetch answered right after a successful write, listing two rules or more
C4_Witness ==
    /\ lastOp.op = API_OP_REACTIONS_FETCH
    /\ lastOp.after = [op |-> API_OP_REACTION_WRITE, ok |-> TRUE]
    /\ Len(wsOut) = 1
    /\ Len(wsOut[1].reactions) >= 2

\* C5: when the load of enable() fails, the feature is not in service: no
\* administrative route and no message filter is registered.
C5_FailedLoadNotEnabled ==
    (lastOp.op = "enable" /\ ~lastOp.ok) => (routes = {} /\ ~filter)

\* C6: reloadAll() is all-or-nothing: a load that succeeds leaves exactly the
\* rows of the store in the map, a load that fails (store unreachable, or a
\* malformed row) leaves the map as it was before the call.
C6_ReloadAllOrNothing ==
    [][lastOp'.op \in {"enable", "reloadAll"}
        => IF lastOp'.ok
           THEN ~released' /\ _data' = table
           ELSE _data' = _data /\ released' = released]_vars

\* C7: every entry of the in-memory rule map is stored under its own id, and
\* that id is the primary key of a row of the store.
C7_KeyIsId ==
    ~released =>
        \A k \in DOMAIN _data : _data[k].id = k /\ k \in DOMAIN table

-----------------------------------------------------------------------------
(* Dispatcher: properties *)

\* the number of blanks of a string
Blanks(s) == Cardinality({i \in 1..Len(s) : s[i] = " "})

\* the effects the latest invocation issued for the rule stored under key k
EffectsOf(k, kinds) ==
    {i \in 1..Len(issued) : issued[i].rule = k /\ issued[i].kind \in kinds}

\* C8: whatever fails, the latest invocation of the filter attempted every
\* emote token (a react call, or a lookup that did not resolve) and the text
\* response of every rule it matched.
C8_EveryEffectAttempted ==
    \A j \in 1..Len(matching) :
        LET k == matching[j]
            r == _data[k]
        IN  /\ Cardinality(EffectsOf(k, {"react", "unresolved"}))
                 = (IF r.emote = NullStr THEN 0 ELSE Blanks(r.emote) + 1)
            /\ Cardinality(EffectsOf(k, {"send"}))
                 = (IF r.response = NullStr THEN 0 ELSE 1)

\* two rules matched, an effect of the first one failed (its send threw), and
\* an effect of the second one was attempted after it
C8_Witness ==
    /\ Len(matching) >= 2
    /\ \E i, j \in 1..Len(issued) :
        /\ i < j
        /\ issued[i].threw
        /\ issued[i].rule # issued[j].rule

\* C9: every promise of a side effect - react calls and the text send alike -
\* has a rejection handler, and no rejection is left unhandled.
C9_EveryFailureHandled ==
    /\ \A i \in InFlight(issued) : issued[i].handler
    /\ unhandled = {}

-----------------------------------------------------------------------------
(* Matcher: properties *)

\* two strings that differ only in the case of characters and in inserted or
\* removed punctuation characters have the same fold
Fold(s) == replaceAll(toLowerCase(s), Punctuation)

\* C10: for a rule with insensitive set, the outcome of the match is the same
\* for every message text and every trigger that differ from the given ones
\* only in case and in punctuation characters.
C10_InsensitiveInvariance ==
    (lastOp.op = "message" /\ ~released) =>
        \A k \in DOMAIN _data :
            _data[k].insensitive # 0 =>
                \A text \in Texts, trigger \in Texts \ {<<>>} :
                    (/\ trim(text) # <<>>
                     /\ Fold(trim(text)) = Fold(trim(msg.cleanContent))
                     /\ Fold(trigger) = Fold(_data[k].trigger))
                    => ((\E j \in 1..Len(matching) : matching[j] = k)
                        <=> Matches([_data[k] EXCEPT !.trigger = trigger],
                                    trim(text), msg.dm \/ msg.mentioned))

\* the normalisation the matcher is to apply to both sides for a rule
Normal(reaction, s) == IF reaction.insensitive # 0 THEN Fold(s) ELSE s

\* the latest invocation selected the rule stored under key k
Selected(k) == \E j \in 1..Len(matching) : matching[j] = k

\* the latest message passed the gates of the filter and, for the rule, the
\* mention requirement
Evaluated(reaction) ==
    /\ lastOp.op = "message"
    /\ ~released
    /\ ~msg.bot /\ ~msg.system
    /\ trim(msg.cleanContent) # <<>>
    /\ reaction.trigger # NullStr
    /\ (reaction.must_mention = 0 \/ msg.dm \/ msg.mentioned)

\* C11: a rule of type message is selected exactly when the normalised
\* trimmed text equals the normalised trigger, both normalised the same way.
C11_MessageTypeExact ==
    \A k \in DOMAIN _data :
        (_data[k].type = TYPE_MESSAGE /\ Evaluated(_data[k]))
        => (Selected(k)
            <=> Normal(_data[k], trim(msg.cleanContent))
                  = Normal(_data[k], _data[k].trigger))

\* the rule of the scenario: keyword "cat", insensitive
CatRule == MatchRule(TYPE_KEYWORD, <<"c", "a", "t">>, 1)

\* the filter was invoked with the given text while the map held CatRule
CatRuleSaw(text) ==
    /\ lastOp.op = "message"
    /\ ~released
    /\ _data = Put(EmptyMap, 1, CatRule)
    /\ msg.cleanContent = text

\* C12, as stated: the keyword rule "cat", insensitive, is selected for the
\* message "I love Cats!".
C12_CatsSelected == CatRuleSaw(ILoveCats) => Selected(1)

\* C12, amended: "I love Cats!" is normalised to "i love cats", where "cat" is
\* followed by the word character "s": the rule is not selected; it is
\* selected for "I love Cat!".
C12_CatSelectedCatsNot ==
    /\ CatRuleSaw(ILoveCats)
         => /\ chatNormal(_data[1], trim(msg.cleanContent))
                 = <<"i", " ", "l", "o", "v", "e", " ", "c", "a", "t", "s">>
            /\ ~Selected(1)
            /\ issued = <<>>
    /\ CatRuleSaw(ILoveCat) => (Selected(1) /\ Len(issued) = 1)

\* the filter saw "I love Cats!" with the rule in the map
C12_Witness == CatRuleSaw(ILoveCats) /\ filter

\* an effect was issued for the rule under key k
Delivered(k) == \E i \in 1..Len(issued) : issued[i].rule = k

\* C13: a rule with must_mention set is neither selected nor delivered for a
\* message that is neither a direct message nor a mention of the bot, whatever
\* its trigger, type and insensitive flag and whatever the text.
C13_MustMentionNeedsMention ==
    (lastOp.op = "message" /\ ~msg.dm /\ ~msg.mentioned)
        => \A k \in DOMAIN _data :
              _data[k].must_mention # 0 => (~Selected(k) /\ ~Delivered(k))

\* a guild message without mention was filtered while the map held a
\* must_mention rule that the same text selects when it mentions the bot
C13_Witness ==
    /\ lastOp.op = "message"
    /\ ~msg.dm /\ ~msg.mentioned
    /\ \E k \in DOMAIN _data :
          /\ _data[k].must_mention # 0
          /\ Matches(_data[k], trim(msg.cleanContent), TRUE)

\* the message stops at the gates of lines 121-132
Gated(m) == m.bot \/ m.system \/ trim(m.cleanContent) = <<>>

\* C14: a message of a bot, a system message or a message whose trimmed text
\* is empty selects no rule and has no effect: nothing is issued, in flight or
\* logged, and nothing is sent to an administrative client.
C14_GatedMessageInert ==
    (lastOp.op = "message" /\ Gated(msg))
        => /\ matching = <<>>
           /\ issued = <<>>
           /\ pending = {} /\ warned = {} /\ unhandled = {}
           /\ wsOut = <<>>
           /\ lastOp.ok /\ ~lastOp.threw

\* a message of a bot or of the system was filtered while the map held a rule
\* that its text selects
C14_Witness ==
    /\ lastOp.op = "message"
    /\ msg.bot \/ msg.system
    /\ \E k \in DOMAIN _data :
          Matches(_data[k], trim(msg.cleanContent), msg.dm \/ msg.mentioned)

\* C15: a rule without trigger is stored by a successful write and listed by
\* a fetch, and no message selects it or causes a delivery for it.
C15_TriggerlessStoredNeverSelected ==
    /\ (lastOp.op = API_OP_REACTION_WRITE /\ lastOp.ok /\ lastOp.row.trigger = NullStr)
          => /\ lastOp.key \in DOMAIN table /\ table[lastOp.key] = Written(lastOp)
             /\ lastOp.key \in DOMAIN _data /\ _data[lastOp.key] = Written(lastOp)
    /\ (lastOp.op = API_OP_REACTIONS_FETCH /\ lastOp.ok)
          => \A k \in DOMAIN _data :
                _data[k].trigger = NullStr
                    => \E i \in 1..Len(wsOut[1].reactions) :
                          wsOut[1].reactions[i] = _data[k]
    /\ lastOp.op = "message"
          => \A k \in DOMAIN _data :
                _data[k].trigger = NullStr => (~Selected(k) /\ ~Delivered(k))

\* a message passed the gates and selected a rule while the map held a rule
\* without trigger
C15_Witness ==
    /\ lastOp.op = "message"
    /\ ~Gated(msg)
    /\ matching # <<>>
    /\ \E k \in DOMAIN _data : _data[k].trigger = NullStr

\* C16: a reaction_delete the store confirmed sends the requester one payload
\* tagged reactions_fetch: the values of the map as it was before the request
\* without the deleted id, whatever the store holds.
C16_DeleteThenList ==
    [][(lastOp'.op = API_OP_REACTION_DELETE /\ lastOp'.ok)
        => /\ _data' = Remove(_data, lastOp'.id)
           /\ Len(wsOut') = 1
           /\ wsOut'[1].op = API_OP_REACTIONS_FETCH
           /\ wsOut'[1].reactions = ObjectValues(Remove(_data, lastOp'.id))
           /\ \A i \in 1..Len(wsOut'[1].reactions) :
                 wsOut'[1].reactions[i].id # lastOp'.id]_vars

\* a confirmed delete answered with the values of the map, while the store
\* holds a row the map does not
C16_Witness ==
    /\ lastOp.op = API_OP_REACTION_DELETE /\ lastOp.ok
    /\ Len(wsOut) = 1
    /\ wsOut[1].reactions = ObjectValues(_data)
    /\ DOMAIN table # DOMAIN _data

\* C17: the filter and the three routes are registered exactly while the
\* feature is enabled; disable() unregisters all four and releases the map,
\* and no request or message is handled after it.
C17_RegisteredWhileEnabled ==
    /\ lifecycle = "enabled" => (routes = AllRoutes /\ filter)
    /\ lifecycle # "enabled" => (routes = {} /\ ~filter)
    /\ lifecycle = "disabled"
          => /\ released /\ _data = EmptyMap /\ ~dbc
             /\ lastOp.op \in {"disable", "reloadAll"}

\* the feature was disabled after it handled a message
C17_Witness ==
    /\ lifecycle = "disabled"
    /\ msg # NoMsg
    /\ lastOp.op = "disable"

\* C18: a successful reaction_write sends an acknowledgement or a broadcast
\* to the requester.
C18_WriteAcknowledged ==
    (lastOp.op = API_OP_REACTION_WRITE /\ lastOp.ok /\ ~lastOp.threw
     /\ lastOp.key \in DOMAIN _data /\ _data[lastOp.key] = Written(lastOp))
        => wsOut # <<>>

\* the position of key k in matchingReactions
MatchedAt(k) == CHOOSE j \in 1..Len(matching) : matching[j] = k

\* the filter returned with every effect of every matched rule issued, rule
\* after rule in the order of matchingReactions, and with every promise of a
\* react or send call still in flight
AllIssuedAtReturn ==
    /\ \A j \in 1..Len(matching) :
          LET r == _data[matching[j]]
          IN  Cardinality(EffectsOf(matching[j], {"react", "unresolved", "send"}))
                = (IF r.emote = NullStr THEN 0 ELSE Blanks(r.emote) + 1)
                    + (IF r.response = NullStr THEN 0 ELSE 1)
    /\ \A i \in 1..Len(issued) : Selected(issued[i].rule)
    /\ \A i, j \in 1..Len(issued) :
          i < j => MatchedAt(issued[i].rule) <= MatchedAt(issued[j].rule)
    /\ pending = {i \in 1..Len(issued) :
                     issued[i].kind \in {"react", "send"} /\ ~issued[i].threw}
    /\ unhandled = {}

\* C19: the dispatcher is fire-and-forget. A step of the filter returns with
\* every effect of every matched rule issued and none of their promises
\* settled; any promise in flight may then settle, in any order, and a
\* completion changes neither the effects issued nor the rules matched.
C19_FireAndForget ==
    [][lastOp'.op = "message"
        => \/ AllIssuedAtReturn'
           \/ /\ UNCHANGED <<msg, matching, issued>>
              /\ \E i \in pending : pending' = pending \ {i}]_vars

\* two rules matched and a promise of the second one settled while a promise
\* of the first one is still in flight
C19_Witness ==
    /\ Len(matching) >= 2
    /\ \E i, j \in 1..Len(issued) :
          /\ i < j
          /\ issued[i].rule # issued[j].rule
          /\ issued[i].kind \in {"react", "send"} /\ ~issued[i].threw
          /\ issued[j].kind \in {"react", "send"} /\ ~issued[j].threw
          /\ i \in pending
          /\ j \notin pending

\* C20: after any sequence of enable(), disable() and reloadAll() calls whose
\* loads may fail, while a route or the filter is registered the map is not
\* released, and no handler faults on a released map.
C20_RegisteredImpliesMap ==
    /\ (routes # {} \/ filter) => ~released
    /\ lastOp.op \in {"message", API_OP_REACTIONS_FETCH} => ~lastOp.threw

====
